---- MODULE Spec2Model ----
(***************************************************************************)
(* A model of the EPUB translator (src/translate_epub.py): the block       *)
(* translation engine translate_doc with its validation / fallback ladder, *)
(* the oracle client translate_html with its retry policy, the per-text-   *)
(* node fallback _translate_text_nodes and the book driver translate_epub. *)
(*                                                                         *)
(* Markup is modelled by its node structure.  A "markup" value is a        *)
(* sequence of items, an item being a record [name, attrs, text, kids]:    *)
(* name = "#text" for a text node (NavigableString), otherwise a tag with  *)
(* its attribute mapping (a set of <<key, value>> pairs) and its children. *)
(* The parsed document (the soup) is a node table: a sequence of records   *)
(* whose kids are node ids; node 1 is <body>.  Nodes that were cut out of  *)
(* the soup stay in the table, unreachable from node 1, as the Python      *)
(* objects stay alive while the list `blocks` refers to them.              *)
(***************************************************************************)
EXTENDS Integers, Sequences, FiniteSets, TLC

\* ------------------------------------------------------------------ bounds
MaxBatch    == 2   \* batch sizes 1..MaxBatch are tried (--batch-size)
MaxFailures == 5   \* failed oracle attempts one run may see in total

\* ------------------------------------------------------- program constants
MaxAttempts == 4   \* stop_after_attempt(4)

BLOCK_TAGS ==
  {"p","div","li","blockquote","section","article","aside","header","footer",
   "nav","main","figure","figcaption","h1","h2","h3","h4","h5","h6","dd","dt",
   "dl","table","thead","tbody","tfoot","tr","td","th","caption","pre"}

CODE_LIKE_TAGS == {"code","pre","samp","kbd","var"}

\* The exception classes an oracle attempt may raise (all are retried:
\* retry_if_exception_type(Exception)).
Failures == {"timeout", "ratelimit"}

\* ------------------------------------------------------------ markup items
TextName == "#text"

T(s) == [name |-> TextName, attrs |-> {}, text |-> s, kids |-> <<>>]

E(n, a, k) == [name |-> n, attrs |-> a, text |-> "", kids |-> k]

IsTag(x) == x.name # TextName

\* str.strip() is empty: the empty string or whitespace only.
IsBlank(s) == s \in {"", " "}

IsBlankItem(x) == ~IsTag(x) /\ IsBlank(x.text)

RECURSIVE AllBlank(_)
AllBlank(m) == m = <<>> \/ (IsBlankItem(Head(m)) /\ AllBlank(Tail(m)))

RECURSIVE DropWhileBlank(_)
DropWhileBlank(m) ==
  IF m = <<>> THEN <<>>
  ELSE IF IsBlankItem(Head(m)) THEN DropWhileBlank(Tail(m)) ELSE m

\* ---------------------------------------------------------- the node table
Body == 1

RECURSIVE DescSeq(_, _)
DescSeq(t, ks) ==
  IF ks = <<>> THEN <<>>
  ELSE <<Head(ks)>> \o DescSeq(t, t[Head(ks)].kids) \o DescSeq(t, Tail(ks))

\* el.descendants: every node below el, in document order.
Descendants(t, el) == DescSeq(t, t[el].kids)

SeqToSet(s) == {s[k] : k \in 1..Len(s)}

\* _iter_blocks: the block-tagged descendants of body, none pruned.
IterBlocks(t) ==
  SelectSeq(Descendants(t, Body), LAMBDA n : IsTag(t[n]) /\ t[n].name \in BLOCK_TAGS)

RECURSIVE ToItems(_, _)
ToItems(t, ks) ==
  IF ks = <<>> THEN <<>>
  ELSE LET n == t[Head(ks)]
       IN <<[name |-> n.name, attrs |-> n.attrs, text |-> n.text,
             kids |-> ToItems(t, n.kids)]>> \o ToItems(t, Tail(ks))

\* _extract_outer: str(el), the element with its tag, attributes and content.
ExtractOuter(t, el) == ToItems(t, <<el>>)

\* _extract_inner on a parsed element: the markup of its children.
ExtractInner(top) == top.kids

\* Moving parsed items into the node table: fresh nodes, in document order.
RECURSIVE AddItems(_, _)
AddItems(t, items) ==
  IF items = <<>> THEN [t |-> t, ids |-> <<>>]
  ELSE LET h    == Head(items)
           id   == Len(t) + 1
           t1   == Append(t, [name |-> h.name, attrs |-> h.attrs,
                              text |-> h.text, kids |-> <<>>])
           sub  == AddItems(t1, h.kids)
           t2   == [sub.t EXCEPT ![id].kids = sub.ids]
           rest == AddItems(t2, Tail(items))
       IN [t |-> rest.t, ids |-> <<id>> \o rest.ids]

\* BeautifulSoup(markup, "lxml"): [body |-> FALSE] when the parser builds no
\* <body> (empty or whitespace-only input), otherwise body.contents.  Leading
\* whitespace is dropped; text that opens the fragment is put into an implied
\* <p>, which stays open until a block-level tag starts; an explicit <body>
\* contributes its own children.
RECURSIVE InlinePrefix(_)
InlinePrefix(m) ==
  IF m = <<>> \/ (IsTag(Head(m)) /\ Head(m).name \in BLOCK_TAGS) THEN 0
  ELSE 1 + InlinePrefix(Tail(m))

Lxml(markup) ==
  LET s == DropWhileBlank(markup)
  IN IF s = <<>> THEN [body |-> FALSE, contents |-> <<>>]
     ELSE IF Head(s).name = "body" THEN [body |-> TRUE, contents |-> Head(s).kids]
     ELSE IF ~IsTag(Head(s))
       THEN LET k == InlinePrefix(s)
            IN [body |-> TRUE,
                contents |-> <<E("p", {}, SubSeq(s, 1, k))>> \o SubSeq(s, k + 1, Len(s))]
     ELSE [body |-> TRUE, contents |-> s]

\* next((c for c in parsed.body.contents if isinstance(c, Tag)), None)
HasTop(contents) == \E k \in 1..Len(contents) : IsTag(contents[k])

Top(contents) ==
  contents[CHOOSE k \in 1..Len(contents) :
             IsTag(contents[k]) /\ \A j \in 1..(k - 1) : ~IsTag(contents[j])]

\* A variant of _same_tag_and_attrs that compares the tag names only.
SameTagOnly(orig, new) == orig.name = new.name

\* _same_tag_and_attrs
SameTagAndAttrs(orig, new) == orig.name = new.name /\ orig.attrs = new.attrs

RECURSIVE GetText(_)
\* get_text(): the text of all text nodes below, concatenated.
GetText(m) ==
  IF m = <<>> THEN ""
  ELSE (IF IsTag(Head(m)) THEN GetText(Head(m).kids) ELSE Head(m).text)
       \o GetText(Tail(m))

RECURSIVE FindSpan(_)
\* parsed.find("span"): the first <span> in document order, as a sequence of
\* at most one item.
FindSpan(m) ==
  IF m = <<>> THEN <<>>
  ELSE IF IsTag(Head(m)) /\ Head(m).name = "span" THEN <<Head(m)>>
  ELSE LET below == IF IsTag(Head(m)) THEN FindSpan(Head(m).kids) ELSE <<>>
       IN IF below # <<>> THEN below ELSE FindSpan(Tail(m))

\* The loop `for c in parsed.body.contents: el.append(c)`: append moves c out
\* of the list the loop iterates over, so the loop's index then steps over
\* the item that slid into c's place: it moves the 1st, 3rd, 5th ... item.
Moved(contents) ==
  [k \in 1..((Len(contents) + 1) \div 2) |-> contents[2 * k - 1]]

\* _replace_inner: el.clear(), then the parsed children are appended.  With
\* no <body> in the parse, parsed.body.contents raises (AttributeError) after
\* the clear: ok is FALSE and el is left empty.
ReplaceInner(t, el, html) ==
  LET cleared == [t EXCEPT ![el].kids = <<>>]
      parsed  == Lxml(html)
      add     == AddItems(cleared, Moved(parsed.contents))
  IN IF ~parsed.body THEN [ok |-> FALSE, t |-> cleared]
     ELSE [ok |-> TRUE, t |-> [add.t EXCEPT ![el].kids = add.ids]]

\* translated_batch.split("\n") and its inverse "\n".join: a string is kept
\* as the sequence of its lines, each line a markup; the empty string is no
\* line at all and splits into one empty piece.
Split(lines) == IF lines = <<>> THEN << <<>> >> ELSE lines

RECURSIVE Join(_)
Join(lines) == IF lines = <<>> THEN <<>> ELSE Head(lines) \o Join(Tail(lines))

RECURSIVE StripLeft(_)
StripLeft(lines) ==
  IF lines = <<>> THEN <<>>
  ELSE IF AllBlank(Head(lines)) THEN StripLeft(Tail(lines))
  ELSE <<DropWhileBlank(Head(lines))>> \o Tail(lines)

RECURSIVE StripRight(_)
StripRight(lines) ==
  IF lines = <<>> THEN <<>>
  ELSE IF AllBlank(lines[Len(lines)]) THEN StripRight(SubSeq(lines, 1, Len(lines) - 1))
  ELSE lines

\* str.strip() on the oracle's text (translate_html, line 79).
Strip(lines) == StripRight(StripLeft(lines))

\* A line that opens or closes a fenced block (three backquotes).
FenceLine == <<T("[fence]")>>

\* if out.startswith(fence): out = "\n".join(out.splitlines()[1:-1]).strip()
Unfence(lines) ==
  IF lines # <<>> /\ Head(lines) # <<>> /\ Head(lines)[1] = FenceLine[1]
    THEN Strip(SubSeq(lines, 2, Len(lines) - 1))
    ELSE lines

\* not html.strip()
BlankLines(lines) == \A k \in 1..Len(lines) : AllBlank(lines[k])

\* ------------------------------------------------------------- the inputs
Attr(k, v) == {<<k, v>>}

\* <p id="x">Hello <b>world</b></p>
DocExample ==
  <<E("body", {}, <<E("p", Attr("id", "x"), <<T("Hello "), E("b", {}, <<T("world")>>)>>)>>)>>

\* <div> <p>Hello</p></div>: a block nested in a block, and a blank text node
DocNested ==
  <<E("body", {}, <<E("div", {}, <<T(" "), E("p", {}, <<T("Hello")>>)>>)>>)>>

\* <p>See <code>x = 1</code></p>: a block with an opaque descendant
DocCode ==
  <<E("body", {}, <<E("p", {}, <<T("See "), E("code", {}, <<T("x = 1")>>)>>)>>)>>

\* <pre>int x</pre>: a block that is itself opaque
DocPre == <<E("body", {}, <<E("pre", {}, <<T("int x")>>)>>)>>

\* <p>A</p><p class="c">B</p><h1>C</h1>: sibling blocks, for the batches
DocBatch ==
  <<E("body", {}, <<E("p", {}, <<T("A")>>), E("p", Attr("class", "c"), <<T("B")>>),
                    E("h1", {}, <<T("C")>>)>>)>>

\* a document item with no markup at all: the parse has no <body>
DocEmpty == <<>>

Books ==
  {<<DocExample>>, <<DocNested>>, <<DocCode>>, <<DocBatch>>, <<DocPre, DocEmpty>>}

\* BeautifulSoup(html, "lxml") on a document item, and str(soup).
Parse(html) == AddItems(<<>>, html).t

Serialize(t) == IF t = <<>> THEN <<>> ELSE ToItems(t, <<Body>>)

\* ------------------------------------------------------------- the oracle
\* The oracle is untrusted: for each request these are the texts it may
\* answer with.  Tr is what it makes of a text.
Tr(s) == IF IsBlank(s) THEN s ELSE "it:" \o s

RECURSIVE MapText(_, _)
MapText(m, codeToo) ==
  IF m = <<>> THEN <<>>
  ELSE LET h == Head(m)
           h2 == IF ~IsTag(h) THEN T(Tr(h.text))
                 ELSE IF h.name \in CODE_LIKE_TAGS /\ ~codeToo THEN h
                 ELSE [h EXCEPT !.kids = MapText(h.kids, codeToo)]
       IN <<h2>> \o MapText(Tail(m), codeToo)

Faithful(r)   == MapText(r, FALSE)
Overeager(r)  == MapText(r, TRUE)
WrongTag(r)   == <<[Faithful(r)[1] EXCEPT !.name = IF @ = "div" THEN "p" ELSE "div"]>>
WrongAttrs(r) == <<[Faithful(r)[1] EXCEPT !.attrs = @ \cup Attr("lang", "it")]>>
Hollow(r)     == <<[r[1] EXCEPT !.kids = <<>>]>>
Chatter       == <<T("Ecco")>>
BodyOnly      == <<E("body", {}, <<>>)>>
BlankLine     == <<T(" ")>>
Fenced(lines) == <<FenceLine>> \o lines \o <<FenceLine>>

\* Answers to a request for one block (r is the block's outer markup), each
\* a single line.
BlockAnswers(r) ==
  {Faithful(r), Overeager(r), WrongTag(r), WrongAttrs(r), Hollow(r),
   Chatter, BodyOnly, <<>>}

RemoveAt(s, j) == SubSeq(s, 1, j - 1) \o SubSeq(s, j + 1, Len(s))

InsertAt(s, j, x) == SubSeq(s, 1, j - 1) \o <<x>> \o SubSeq(s, j, Len(s))

\* Answers to a batch request (rs: the blocks' outer markups): the faithful
\* answer line by line, or that answer with one line spoilt, lost or added.
BatchAnswers(rs) ==
  LET base == [j \in 1..Len(rs) |-> Faithful(rs[j])]
  IN {base, Fenced(base), <<>>}
     \cup UNION {{[base EXCEPT ![j] = a] :
                    a \in {WrongTag(rs[j]), Overeager(rs[j]), Hollow(rs[j]), BlankLine, <<>>}}
                 : j \in 1..Len(rs)}
     \cup {RemoveAt(base, j) : j \in 1..Len(rs)}
     \cup {InsertAt(base, j, Chatter) : j \in 1..(Len(rs) + 1)}

\* Answers to the request <span>s</span> of the per-text-node fallback.
NodeAnswers(s) ==
  {<<E("span", {}, <<T(Tr(s))>>)>>, <<E("span", {}, <<E("b", {}, <<T(Tr(s))>>)>>)>>,
   <<T(Tr(s))>>, <<>>}

\* ------------------------------------------------------------------ state
VARIABLES
  book,        \* the container's document items as read (markup per item)
  key,         \* OPENAI_API_KEY is set
  dry_run,     \* Settings.dry_run
  batch_size,  \* Settings.batch_size
  pc,          \* where the run stands
  stored,      \* the content each document item holds now
  written,     \* epub.write_epub has written the output container
  loaded,      \* epub.read_epub has read the input container
  d,           \* translate_epub: index of the current document (from 1)
  tree,        \* translate_doc: the soup
  blocks,      \* translate_doc: list(_iter_blocks(body)), as node ids
  i,           \* translate_doc: the loop index (from 0)
  parts,       \* translate_doc: translated_parts
  idx,         \* translate_doc: idx_in_batch (from 0)
  queue,       \* _translate_text_nodes: the text nodes still to visit
  ctx,         \* translate_html: which call site is waiting for it
  req,         \* translate_html: the html argument, as lines
  att,         \* translate_html: attempts made by this call
  errs,        \* translate_html: the exceptions of the failed attempts
  out,         \* translate_html: the value returned
  net,         \* translate_html: requests this call has sent to the oracle
  exc,         \* the last exception raised ("" for none)
  failures,    \* failed attempts so far in the run
  blk,         \* per block of the current document: what happened to it
  finished     \* the blocks of the current document that pb.update counted

inputs == <<book, key, dry_run, batch_size>>
driver == <<stored, written, loaded, d>>
callv  == <<ctx, req, att, errs, out, net>>
docv   == <<tree, blocks, i, parts, idx, queue, blk, finished>>
vars   == <<inputs, pc, driver, docv, callv, exc, failures>>

NewBlk ==
  [ladder |-> <<"Pending">>, via |-> "none", shape |-> <<>>, pieces |-> 0,
   size |-> 0, whole |-> 0, batched |-> 0, sent |-> {}]

Init ==
  /\ book \in Books
  /\ key \in BOOLEAN
  /\ dry_run \in BOOLEAN
  /\ batch_size \in 1..MaxBatch
  /\ pc = "start"
  /\ stored = book
  /\ written = FALSE
  /\ loaded = FALSE
  /\ d = 1
  /\ tree = <<>> /\ blocks = <<>> /\ i = 0 /\ parts = <<>> /\ idx = 0
  /\ queue = <<>> /\ blk = <<>> /\ finished = {}
  /\ ctx = "none" /\ req = <<>> /\ att = 0 /\ errs = <<>> /\ out = <<>>
  /\ net = 0
  /\ exc = ""
  /\ failures = 0

\* -------------------------------------------------- translate_doc's helpers
Min(a, b) == IF a < b THEN a ELSE b

\* A variant of the slice that forgets its upper end.
BatchToEnd ==
  IF batch_size > 1 THEN SubSeq(blocks, i + 1, Len(blocks))
  ELSE <<blocks[i + 1]>>

\* blocks[i:i+st.batch_size] if st.batch_size > 1 else [blocks[i]]
Batch ==
  IF batch_size > 1 THEN SubSeq(blocks, i + 1, Min(i + batch_size, Len(blocks)))
  ELSE <<blocks[i + 1]>>

\* The index in `blocks` (from 1) of the block at hand.
Cur == IF batch_size > 1 THEN i + idx + 1 ELSE i + 1

Step(b, k, st) == [b EXCEPT ![k].ladder = Append(@, st)]

\* The first loop of _translate_text_nodes: any code-like tag below el.
HasCodeLike(t, el) ==
  \E n \in SeqToSet(Descendants(t, el)) : IsTag(t[n]) /\ t[n].name \in CODE_LIKE_TAGS

\* The second loop's list(el.descendants), its text nodes (NavigableString).
TextNodes(t, el) == SelectSeq(Descendants(t, el), LAMBDA n : ~IsTag(t[n]))

\* _translate_text_nodes is entered for block k on the soup t: it returns at
\* once when a code-like tag is below the block, else it walks the text nodes.
EnterFallback(t, k, b) ==
  /\ tree' = t
  /\ blk' = Step(b, k, "NodeFallback")
  /\ queue' = IF HasCodeLike(t, blocks[k]) THEN <<>> ELSE TextNodes(t, blocks[k])
  /\ pc' = "nodes"
  /\ UNCHANGED <<blocks, i, parts, idx, finished>>

\* pb.update(1) and the step to the next block.
FinishBlock(k) ==
  /\ finished' = finished \cup {k}
  /\ IF batch_size > 1
       THEN idx' = idx + 1 /\ i' = i /\ pc' = "each"
       ELSE i' = i + 1 /\ idx' = idx /\ pc' = "loop"

\* A call of translate_html from call site c with argument r.
StartCall(c, r) ==
  /\ ctx' = c /\ req' = r /\ att' = 0 /\ errs' = <<>> /\ out' = <<>>
  /\ net' = 0
  /\ pc' = "call"

\* The call of translate_html is over: its frame is gone.
EndCall ==
  /\ ctx' = "none" /\ req' = <<>> /\ att' = 0 /\ errs' = <<>> /\ out' = <<>>
  /\ net' = 0

\* ------------------------------------------------------ translate_epub
\* book = epub.read_epub(st.input_path)
ReadEpub ==
  /\ pc = "start"
  /\ loaded' = TRUE
  /\ pc' = "translator"
  /\ UNCHANGED <<inputs, stored, written, d, docv, callv, exc, failures>>

\* tr = Translator(st.model, st.temperature): raises without the credential.
NewTranslator ==
  /\ pc = "translator"
  /\ IF key THEN pc' = "docs" /\ exc' = exc
            ELSE pc' = "raised" /\ exc' = "RuntimeError"
  /\ UNCHANGED <<inputs, driver, docv, callv, failures>>

\* A variant of the driver's store that forgets the dry_run test.
SetContentAlways(st, k, html, dry) == [st EXCEPT ![k] = html]

\* if not st.dry_run: item.set_content(new_html)
SetContent(st, k, html, dry) == IF dry THEN st ELSE [st EXCEPT ![k] = html]

\* translate_doc is called on the next document item: lines 97-103.
TranslateDocEnter ==
  /\ pc = "docs" /\ d <= Len(book)
  /\ LET soup == Parse(stored[d])
     IN /\ tree' = soup
        /\ blocks' = IF soup = <<>> THEN <<>> ELSE IterBlocks(soup)
        /\ blk' = [k \in 1..Len(blocks') |-> NewBlk]
        /\ pc' = IF soup = <<>> THEN "returned" ELSE "loop"
  /\ i' = 0 /\ parts' = <<>> /\ idx' = 0 /\ queue' = <<>> /\ finished' = {}
  /\ UNCHANGED <<inputs, driver, callv, exc, failures>>

\* translate_doc has returned new_html: lines 159-162.
DocReturned ==
  /\ pc = "returned"
  /\ LET new_html == IF tree = <<>> THEN stored[d] ELSE Serialize(tree)
     IN stored' = SetContent(stored, d, new_html, dry_run)
  /\ d' = d + 1
  /\ pc' = "docs"
  /\ UNCHANGED <<inputs, written, loaded, docv, callv, exc, failures>>

\* After the last document: if not st.dry_run: epub.write_epub(...)
WriteEpub ==
  /\ pc = "docs" /\ d > Len(book)
  /\ written' = ~dry_run
  /\ pc' = "done"
  /\ UNCHANGED <<inputs, stored, loaded, d, docv, callv, exc, failures>>

\* ------------------------------------------------------- translate_doc
\* The head of `while i < len(blocks)` and the request that follows it: the
\* batch request (lines 105-108) or the single block's request (138-140).
LoopHead ==
  /\ pc = "loop"
  /\ IF i >= Len(blocks)
       THEN /\ pc' = "returned"
            /\ UNCHANGED <<docv, callv>>
       ELSE IF batch_size > 1
         THEN /\ StartCall("batch", [j \in 1..Len(Batch) |-> ExtractOuter(tree, Batch[j])])
              /\ blk' = [k \in 1..Len(blocks) |->
                           IF k \in (i + 1)..(i + Len(Batch))
                             THEN [blk[k] EXCEPT !.ladder = Append(@, "BatchAttempted"),
                                                 !.batched = @ + 1]
                             ELSE blk[k]]
              /\ UNCHANGED <<tree, blocks, i, parts, idx, queue, finished>>
         ELSE /\ StartCall("single", <<ExtractOuter(tree, blocks[i + 1])>>)
              /\ blk' = [blk EXCEPT ![i + 1].ladder = Append(@, "BatchAttempted"),
                                    ![i + 1].whole = @ + 1]
              /\ UNCHANGED <<tree, blocks, i, parts, idx, queue, finished>>
  /\ UNCHANGED <<inputs, driver, exc, failures>>

\* The block passed validation: _replace_inner(el, _extract_inner(top)) at
\* line 134 or 144, outside any try.
Install(k, top, how) ==
  LET r == ReplaceInner(tree, blocks[k], ExtractInner(top))
      b == [blk EXCEPT ![k].via = how,
                       ![k].shape = <<[name |-> top.name, attrs |-> top.attrs]>>]
  IN /\ tree' = r.t
     /\ IF r.ok
          THEN /\ blk' = Step(b, k, "Accepted")
               /\ FinishBlock(k)
               /\ exc' = exc
          ELSE /\ blk' = b
               /\ pc' = "raised" /\ exc' = "AttributeError"
               /\ UNCHANGED <<i, idx, finished>>
     /\ UNCHANGED <<blocks, parts, queue>>

\* translated_parts = translated_batch.split("\n") and the mapping (109-110).
AfterBatch ==
  /\ pc = "after_batch"
  /\ parts' = Split(out)
  /\ idx' = 0
  /\ blk' = [k \in 1..Len(blocks) |->
               IF k \in (i + 1)..(i + Len(Batch))
                 THEN [blk[k] EXCEPT !.pieces = Len(parts'), !.size = Len(Batch)]
                 ELSE blk[k]]
  /\ pc' = "each"
  /\ UNCHANGED <<inputs, driver, tree, blocks, i, queue, finished, exc, failures>>
  /\ EndCall

\* One round of `for idx_in_batch, el in enumerate(batch)` up to the retry's
\* request (lines 111-123, 133-136).
EachBlock ==
  /\ pc = "each"
  /\ IF idx >= Len(Batch)
       THEN /\ i' = i + batch_size
            /\ pc' = "loop"
            /\ UNCHANGED <<tree, blocks, parts, idx, queue, blk, finished, callv, exc>>
       ELSE LET k          == Cur
                el         == blocks[k]
                orig_html  == ExtractOuter(tree, el)
                none       == idx + 1 > Len(parts)
                translated == IF none THEN <<>> ELSE parts[idx + 1]
                parsed     == Lxml(translated)
            IN IF translated = <<>>
                 THEN EnterFallback(tree, k, blk) /\ UNCHANGED <<callv, exc>>
               ELSE IF ~parsed.body
                 THEN /\ pc' = "raised" /\ exc' = "AttributeError"
                      /\ UNCHANGED <<docv, callv>>
               ELSE IF ~HasTop(parsed.contents)
                       \/ ~SameTagAndAttrs(tree[el], Top(parsed.contents))
                 THEN /\ StartCall("retry", <<orig_html>>)
                      /\ blk' = [Step(blk, k, "SingleRetryAttempted") EXCEPT ![k].whole = @ + 1]
                      /\ UNCHANGED <<tree, blocks, i, parts, idx, queue, finished, exc>>
               ELSE Install(k, Top(parsed.contents), "batch") /\ UNCHANGED callv
  /\ UNCHANGED <<inputs, driver, failures>>

\* The retry's answer inside the try (lines 124-129), with its except clause
\* (130-132) for what the parse or _replace_inner raises.
AfterRetry ==
  /\ pc = "after_retry"
  /\ LET k      == Cur
         el     == blocks[k]
         parsed == Lxml(Join(out))
     IN IF ~parsed.body
          THEN EnterFallback(tree, k, blk) /\ exc' = "AttributeError"
        ELSE IF HasTop(parsed.contents) /\ SameTagAndAttrs(tree[el], Top(parsed.contents))
          THEN LET top == Top(parsed.contents)
                   r   == ReplaceInner(tree, el, ExtractInner(top))
                   b   == [blk EXCEPT ![k].via = "retry",
                                      ![k].shape = <<[name |-> top.name, attrs |-> top.attrs]>>]
               IN IF r.ok
                    THEN /\ tree' = r.t
                         /\ blk' = Step(b, k, "Accepted")
                         /\ FinishBlock(k)
                         /\ exc' = exc
                         /\ UNCHANGED <<blocks, parts, queue>>
                    ELSE EnterFallback(r.t, k, b) /\ exc' = "AttributeError"
        ELSE EnterFallback(tree, k, blk) /\ exc' = exc
  /\ UNCHANGED <<inputs, driver, failures>>
  /\ EndCall

\* except Exception as e: the retry's translate_html raised (lines 130-132).
RetryCaught ==
  /\ pc = "caught"
  /\ EnterFallback(tree, Cur, blk)
  /\ UNCHANGED <<inputs, driver, exc, failures>>
  /\ EndCall

\* The single block's answer (lines 141-148).
AfterSingle ==
  /\ pc = "after_single"
  /\ LET k      == Cur
         el     == blocks[k]
         parsed == Lxml(Join(out))
     IN IF ~parsed.body
          THEN /\ pc' = "raised" /\ exc' = "AttributeError"
               /\ UNCHANGED docv
        ELSE IF HasTop(parsed.contents) /\ SameTagAndAttrs(tree[el], Top(parsed.contents))
          THEN Install(k, Top(parsed.contents), "single")
        ELSE EnterFallback(tree, k, blk) /\ exc' = exc
  /\ UNCHANGED <<inputs, driver, failures>>
  /\ EndCall

\* ----------------------------------------------- _translate_text_nodes
\* A variant of the test that takes every text node for one worth sending.
NodeStripAlways(s) == TRUE

\* `node.strip()` as a truth value (line 89): the text has a visible character.
NodeStrip(s) == ~IsBlank(s)

\* One round of the second loop up to its request (lines 88-91), or the
\* function's return to translate_doc.
NodeStep ==
  /\ pc = "nodes"
  /\ IF queue = <<>>
       THEN /\ FinishBlock(Cur)
            /\ UNCHANGED <<tree, blocks, parts, queue, blk, callv>>
       ELSE LET node == Head(queue)
            IN IF ~NodeStrip(tree[node].text)
                 THEN /\ queue' = Tail(queue)
                      /\ pc' = "nodes"
                      /\ UNCHANGED <<tree, blocks, i, parts, idx, blk, finished, callv>>
                 ELSE /\ StartCall("node", << <<E("span", {}, <<T(tree[node].text)>>)>> >>)
                      /\ blk' = [blk EXCEPT ![Cur].sent = @ \cup {node}]
                      /\ UNCHANGED <<tree, blocks, i, parts, idx, queue, finished>>
  /\ UNCHANGED <<inputs, driver, exc, failures>>

\* The text node's answer (lines 92-94).
AfterNode ==
  /\ pc = "after_node"
  /\ LET node   == Head(queue)
         parsed == Lxml(Join(out))
         span   == FindSpan(parsed.contents)
         text   == IF span # <<>> THEN GetText(span) ELSE GetText(parsed.contents)
     IN tree' = [tree EXCEPT ![node].text = text]
  /\ queue' = Tail(queue)
  /\ pc' = "nodes"
  /\ UNCHANGED <<inputs, driver, blocks, i, parts, idx, blk, finished, exc, failures>>
  /\ EndCall

\* ------------------------------------------------ Translator.translate_html
\* What the oracle may answer to the request at hand.
Answers ==
  CASE ctx = "batch" -> BatchAnswers(req)
    [] ctx = "node"  -> {<<a>> : a \in NodeAnswers(req[1][1].kids[1].text)}
    [] OTHER         -> {<<a>> : a \in BlockAnswers(req[1])}
                          \cup {Fenced(<<Faithful(req[1])>>)}

\* A variant of the stop condition that allows one attempt more.
StopAfterFive(n) == n >= MaxAttempts + 1

\* stop=stop_after_attempt(4)
StopAfterAttempt(n) == n >= MaxAttempts

\* reraise=True: the exception of the last attempt is the one raised.
Reraise(es) == es[Len(es)]

\* An attempt returns: blank input is returned as it is, without a request
\* (line 70); otherwise the oracle's text, stripped and without its fence
\* (lines 79-82).
TranslateHtmlReturns ==
  /\ pc = "call"
  /\ IF BlankLines(req)
       THEN out' = req /\ net' = net
       ELSE /\ \E a \in Answers : out' = Unfence(Strip(a))
            /\ net' = net + 1
  /\ att' = att + 1
  /\ pc' = "after_" \o ctx
  /\ UNCHANGED <<inputs, driver, docv, ctx, req, errs, exc, failures>>

\* An attempt raises: tenacity calls again, or re-raises after the 4th.  In
\* translate_doc only the retry's call is inside a try.
TranslateHtmlFails ==
  /\ pc = "call"
  /\ ~BlankLines(req)
  /\ failures < MaxFailures
  /\ \E e \in Failures : errs' = Append(errs, e)
  /\ att' = att + 1
  /\ net' = net + 1
  /\ failures' = failures + 1
  /\ IF StopAfterAttempt(att')
       THEN /\ exc' = Reraise(errs')
            /\ pc' = IF ctx = "retry" THEN "caught" ELSE "raised"
       ELSE /\ exc' = exc
            /\ pc' = "call"
  /\ UNCHANGED <<inputs, driver, docv, ctx, req, out>>

Next ==
  \/ ReadEpub
  \/ NewTranslator
  \/ TranslateDocEnter
  \/ DocReturned
  \/ WriteEpub
  \/ LoopHead
  \/ AfterBatch
  \/ EachBlock
  \/ AfterRetry
  \/ RetryCaught
  \/ AfterSingle
  \/ NodeStep
  \/ AfterNode
  \/ TranslateHtmlReturns
  \/ TranslateHtmlFails

Spec == Init /\ [][Next]_vars

\* --------------------------------------- translate_html called on its own
\* Fragments handed to translate_html directly: "", " ", a newline and a
\* blank, <p>Hi</p>, and <span> </span> (blank text, but not a blank string).
Fragments ==
  {<<>>, << <<T(" ")>> >>, << <<>>, <<T(" ")>> >>,
   << <<E("p", {}, <<T("Hi")>>)>> >>, << <<E("span", {}, <<T(" ")>>)>> >>}

\* A constructed Translator whose translate_html is called with a fragment,
\* outside translate_doc.
InitDirect ==
  /\ book = <<>> /\ key = TRUE /\ dry_run = FALSE /\ batch_size = 1
  /\ stored = <<>> /\ written = FALSE /\ loaded = FALSE /\ d = 1
  /\ tree = <<>> /\ blocks = <<>> /\ i = 0 /\ parts = <<>> /\ idx = 0
  /\ queue = <<>> /\ blk = <<>> /\ finished = {}
  /\ pc = "call" /\ ctx = "direct" /\ req \in Fragments
  /\ att = 0 /\ errs = <<>> /\ out = <<>> /\ net = 0
  /\ exc = "" /\ failures = 0

\* The runs of translate_epub together with the direct calls.
SpecClient == (Init \/ InitDirect) /\ [][Next]_vars

\* ------------------------------------------- epub_translator_pro.py
\* EpubTranslatorPro works on the same kind of container.  Of the state it
\* uses book, key, dry_run, batch_size, pc, stored, written, loaded, d, tree,
\* i, and: queue for text_elements, req for the texts handed to
\* translate_batch, out for the list it returns, errs for the exception its
\* last attempt was caught with, att for how deep translate_batch has called
\* itself.

\* The recursion depths the model tells apart: att stays at MaxDepth from
\* there on (translate_batch itself sets no limit).
MaxDepth == 3

\* <style>p {}</style><p>Hi</p>
DocStyle ==
  <<E("body", {}, <<E("style", {}, <<T("p {}")>>), E("p", {}, <<T("Hi")>>)>>)>>

ProBooks == {<<DocExample>>, <<DocNested, DocCode>>, <<DocBatch>>, <<DocStyle>>}

\* Exceptions of openai.ChatCompletion.create other than RateLimitError.
ProErrors == {"timeout", "invalid"}

InitPro ==
  /\ book \in ProBooks
  /\ key \in BOOLEAN
  /\ dry_run \in BOOLEAN
  /\ batch_size \in 1..MaxBatch
  /\ pc = "pro_start"
  /\ stored = book
  /\ written = FALSE
  /\ loaded = FALSE
  /\ d = 1
  /\ tree = <<>> /\ blocks = <<>> /\ i = 0 /\ parts = <<>> /\ idx = 0
  /\ queue = <<>> /\ blk = <<>> /\ finished = {}
  /\ ctx = "none" /\ req = <<>> /\ att = 0 /\ errs = <<>> /\ out = <<>>
  /\ net = 0
  /\ exc = ""
  /\ failures = 0

\* t.parent of a node of the soup.
ParentOf(t, n) == CHOOSE q \in 1..Len(t) : n \in SeqToSet(t[q].kids)

\* [t for t in soup.find_all(text=True)
\*    if t.strip() and t.parent.name not in ['script', 'style']]
TextElements(t) ==
  SelectSeq(Descendants(t, Body),
            LAMBDA n : /\ ~IsTag(t[n]) /\ ~IsBlank(t[n].text)
                       /\ t[ParentOf(t, n)].name \notin {"script", "style"})

\* batch = text_elements[i:i + self.settings.batch_size]
ProBatch == SubSeq(queue, i + 1, Min(i + batch_size, Len(queue)))

\* What the oracle may return as response.choices for the texts sent: one
\* choice per text, one choice in all, or none.
ProAnswers(texts) ==
  {[j \in 1..Len(texts) |-> Tr(texts[j])], <<Tr(texts[1])>>, <<>>}

\* A variant of the except clause that returns an empty list.
OnErrorNothing(texts) == <<>>

\* except Exception: return texts
OnError(texts) == texts

\* for orig, new in zip(batch, translated): orig.replace_with(new)
ZipReplace(t, batch, new) ==
  [n \in 1..Len(t) |->
     IF \E j \in 1..Min(Len(batch), Len(new)) : batch[j] = n
       THEN [t[n] EXCEPT !.text =
               new[CHOOSE j \in 1..Min(Len(batch), Len(new)) : batch[j] = n]]
       ELSE t[n]]

\* __init__: setup_openai leaves with sys.exit when the key is not set.
ProSetup ==
  /\ pc = "pro_start"
  /\ IF key THEN pc' = "pro_read" /\ exc' = exc
            ELSE pc' = "exited" /\ exc' = "SystemExit"
  /\ UNCHANGED <<inputs, driver, docv, callv, failures>>

\* process_epub: read_epub, then the dry run's analysis and return, or the
\* translation proper.
ProRead ==
  /\ pc = "pro_read"
  /\ loaded' = TRUE
  /\ pc' = IF dry_run THEN "done" ELSE "pro_items"
  /\ UNCHANGED <<inputs, stored, written, d, docv, callv, exc, failures>>

\* for item in pbar: the soup and its text_elements.
ProItem ==
  /\ pc = "pro_items" /\ d <= Len(book)
  /\ tree' = Parse(stored[d])
  /\ queue' = TextElements(tree')
  /\ i' = 0
  /\ pc' = "pro_batch"
  /\ UNCHANGED <<inputs, driver, blocks, parts, idx, blk, finished, callv, exc, failures>>

\* epub.write_epub(self.settings.output, book)
ProWrite ==
  /\ pc = "pro_items" /\ d > Len(book)
  /\ written' = TRUE
  /\ pc' = "done"
  /\ UNCHANGED <<inputs, stored, loaded, d, docv, callv, exc, failures>>

\* The head of `for i in range(0, len(text_elements), batch_size)` with the
\* call of translate_batch, or item.set_content after the last batch.
ProLoop ==
  /\ pc = "pro_batch"
  /\ IF i >= Len(queue)
       THEN /\ stored' = [stored EXCEPT ![d] = Serialize(tree)]
            /\ d' = d + 1
            /\ pc' = "pro_items"
            /\ ctx' = "none" /\ req' = <<>> /\ errs' = <<>>
       ELSE /\ ctx' = "pro"
            /\ req' = [j \in 1..Len(ProBatch) |-> tree[ProBatch[j]].text]
            /\ errs' = <<>>
            /\ pc' = "pro_call"
            /\ UNCHANGED <<stored, d>>
  /\ att' = 0 /\ out' = <<>>
  /\ UNCHANGED <<inputs, written, loaded, docv, net, exc, failures>>

\* The request succeeds: the contents of response.choices are returned, up
\* through every enclosing call of translate_batch.
ProReturns ==
  /\ pc = "pro_call"
  /\ \E a \in ProAnswers(req) : out' = a
  /\ pc' = "pro_ret"
  /\ UNCHANGED <<inputs, driver, docv, ctx, req, att, errs, net, exc, failures>>

\* except openai.error.RateLimitError: the message and time.sleep(20).
ProRateLimit ==
  /\ pc = "pro_call"
  /\ pc' = "pro_sleep"
  /\ exc' = "ratelimit"
  /\ UNCHANGED <<inputs, driver, docv, callv, failures>>

\* return self.translate_batch(texts): the call from inside the except
\* clause, one frame deeper.
ProRecurse ==
  /\ pc = "pro_sleep"
  /\ att' = Min(att + 1, MaxDepth)
  /\ pc' = "pro_call"
  /\ UNCHANGED <<inputs, driver, docv, ctx, req, errs, out, net, exc, failures>>

\* except Exception as e: the texts are returned as they came.
ProFails ==
  /\ pc = "pro_call"
  /\ \E e \in ProErrors : errs' = <<e>> /\ exc' = e
  /\ out' = OnError(req)
  /\ pc' = "pro_ret"
  /\ UNCHANGED <<inputs, driver, docv, ctx, req, att, net, failures>>

\* Beyond the depths the model tells apart the interpreter's recursion limit
\* may be hit: RecursionError is raised either inside the innermost try,
\* where `except Exception` returns the texts, or in an except clause, from
\* where it reaches process_epub's `except Exception` and sys.exit.
ProOverflow ==
  /\ pc = "pro_call" /\ att = MaxDepth
  /\ exc' = "RecursionError"
  /\ \/ out' = OnError(req) /\ pc' = "pro_ret"
     \/ out' = out /\ pc' = "exited"
  /\ UNCHANGED <<inputs, driver, docv, ctx, req, att, errs, net, failures>>

\* for orig, new in zip(batch, translated): orig.replace_with(new), then
\* time.sleep and the next batch.
ProReplace ==
  /\ pc = "pro_ret"
  /\ tree' = ZipReplace(tree, ProBatch, out)
  /\ i' = i + batch_size
  /\ pc' = "pro_batch"
  /\ UNCHANGED <<inputs, driver, blocks, parts, idx, queue, blk, finished, callv, exc, failures>>

NextPro ==
  \/ ProSetup
  \/ ProRead
  \/ ProItem
  \/ ProWrite
  \/ ProLoop
  \/ ProReturns
  \/ ProRateLimit
  \/ ProRecurse
  \/ ProFails
  \/ ProOverflow
  \/ ProReplace

\* The program keeps running while it can; the oracle is free to fail as
\* long as it likes.
SpecPro == InitPro /\ [][NextPro]_vars /\ WF_vars(NextPro)

\* ------------------------------------------------------------ the claims
\* translate_doc is at work on document d (or has just returned from it).
InDoc == pc \notin {"start", "translator", "docs", "done"} /\ tree # <<>>

\* The document as it was parsed, before any mutation.
Original == Parse(book[d])

Has(seq, x) == \E k \in 1..Len(seq) : seq[k] = x

Last(seq) == seq[Len(seq)]

\* The nodes below el that lie inside a code-like tag (el itself included).
OpaqueNodes(t, el) ==
  IF t[el].name \in CODE_LIKE_TAGS THEN SeqToSet(Descendants(t, el))
  ELSE UNION {SeqToSet(Descendants(t, c)) :
                c \in {n \in SeqToSet(Descendants(t, el)) :
                         IsTag(t[n]) /\ t[n].name \in CODE_LIKE_TAGS}}

\* isOpaque, and the block inside an opaque ancestor.
IsOpaque(t, el) ==
  \/ t[el].name \in CODE_LIKE_TAGS
  \/ HasCodeLike(t, el)
  \/ el \in OpaqueNodes(t, Body)

RECURSIVE OpaqueTexts(_)
\* The text inside each code-like tag of a markup, in document order.
OpaqueTexts(m) ==
  IF m = <<>> THEN <<>>
  ELSE LET h == Head(m)
       IN (IF ~IsTag(h) THEN <<>>
           ELSE IF h.name \in CODE_LIKE_TAGS THEN <<GetText(h.kids)>>
           ELSE OpaqueTexts(h.kids)) \o OpaqueTexts(Tail(m))

\* C1 (shape preservation): every block that passed validation on the batch,
\* the retry or the single path, so that _replace_inner was applied to it,
\* still has the tag name and the attribute mapping of the original block,
\* and so has the response element whose inner content was installed.
C1_ShapePreserved ==
  InDoc =>
    \A k \in 1..Len(blk) :
      blk[k].via # "none" =>
        LET orig == Original[blocks[k]]
            now  == tree[blocks[k]]
            top  == blk[k].shape[1]
        IN /\ now.name = orig.name /\ now.attrs = orig.attrs
           /\ top.name = orig.name /\ top.attrs = orig.attrs

\* C1's case: in one document a block was accepted from the batch response
\* and another from its retry, after a response of the wrong shape.
C1_Witness ==
  /\ pc = "returned"
  /\ \E k \in 1..Len(blk) : blk[k].via = "batch" /\ Last(blk[k].ladder) = "Accepted"
  /\ \E k \in 1..Len(blk) : blk[k].via = "retry" /\ Last(blk[k].ladder) = "Accepted"

\* C2 (opaque immunity): when translate_doc returns, the text inside every
\* code-like tag of the document is the original text.
C2_OpaqueImmunity ==
  (pc = "returned" /\ tree # <<>>) =>
    OpaqueTexts(Serialize(tree)) = OpaqueTexts(book[d])

\* C3 (fallback completeness): when _translate_text_nodes returns for a block
\* whose batch response and single retry both failed, every text node below
\* the block that is not inside a code-like tag was sent to the oracle,
\* unless it is blank.
C3_FallbackComplete ==
  (pc = "nodes" /\ queue = <<>> /\ exc = ""
     /\ Has(blk[Cur].ladder, "SingleRetryAttempted")) =>
    \A n \in SeqToSet(TextNodes(tree, blocks[Cur])) \ OpaqueNodes(tree, blocks[Cur]) :
      n \in blk[Cur].sent \/ IsBlank(tree[n].text)

\* C4 (oracle failures are absorbed): no failure of the oracle, raised by
\* translate_html after its attempts, ends translate_doc.
C4_OracleFailureAbsorbed == ~(pc = "raised" /\ exc \in Failures)

\* C5 (dry-run non-mutation): in a dry run no document item's content ever
\* differs from the content read, the output container is never written,
\* and still every block of a document went through the ladder: it was part
\* of an oracle request and was counted as processed when translate_doc
\* returned.
C5_DryRunNonMutation ==
  dry_run =>
    /\ stored = book
    /\ ~written
    /\ (pc = "returned" /\ tree # <<>>) =>
         \A k \in 1..Len(blocks) :
           k \in finished /\ blk[k].batched + blk[k].whole >= 1

\* C5's case: a dry run has ended, and the markup translate_doc had produced
\* for the last document, which differs from the document, was not stored.
C5_Witness ==
  /\ dry_run /\ pc = "done"
  /\ tree # <<>> /\ Serialize(tree) # book[d - 1]
  /\ stored = book

\* C6 (split-count mismatch): a block of a batch whose response did not
\* split into as many pieces as the batch has blocks is never accepted from
\* the batch response.
C6_MismatchFailsAll ==
  \A k \in 1..Len(blk) :
    (blk[k].size > 0 /\ blk[k].pieces # blk[k].size) => blk[k].via # "batch"

\* C7 (ladder order): a block enters NodeFallback only from
\* SingleRetryAttempted, after exactly one request of its own markup that
\* followed its first request; never straight from the first attempt.
C7_LadderOrder ==
  \A k \in 1..Len(blk) :
    Has(blk[k].ladder, "NodeFallback") =>
      blk[k].ladder = <<"Pending", "BatchAttempted", "SingleRetryAttempted", "NodeFallback">>

\* C8 (no request carries opaque content): an opaque block is never put
\* into a batch request or a request of its own, and no text node inside a
\* code-like tag is sent by the per-text-node fallback.
C8_NoOpaqueRequest ==
  InDoc =>
    \A k \in 1..Len(blk) :
      IsOpaque(Original, blocks[k]) =>
        /\ blk[k].batched = 0 /\ blk[k].whole = 0
        /\ blk[k].sent \cap OpaqueNodes(Original, blocks[k]) = {}

\* C9 (retry bound): a call of translate_html makes at most 4 attempts; it
\* returns on its first attempt that succeeds, so never after 4 failures;
\* and it raises only after 4 failed attempts, the exception being the one
\* of the 4th.
C9_RetryBound ==
  /\ att <= MaxAttempts
  /\ pc = "call" => att = Len(errs) /\ att < MaxAttempts
  /\ pc \in {"after_batch", "after_single", "after_retry", "after_node"} =>
       att = Len(errs) + 1
  /\ (pc \in {"caught", "raised"} /\ ctx # "none") =>
       /\ att = MaxAttempts /\ Len(errs) = MaxAttempts
       /\ exc = errs[MaxAttempts]

\* C9's case: translate_html has raised after 4 failed attempts whose first
\* and last exceptions differ.
C9_Witness ==
  /\ pc = "raised" /\ ctx # "none"
  /\ Len(errs) = MaxAttempts /\ errs[1] # errs[MaxAttempts]

\* C10 (an unparseable response is a shape mismatch): translate_doc never
\* ends with the exception of reading the body of a response that has none.
C10_UnparseableIsMismatch ==
  ~(pc = "raised" /\ exc = "AttributeError" /\ blk[Cur].via = "none")

\* Blocks k and k+1 (from 1) are sliced into the same batch.
SameBatch(k) == batch_size > 1 /\ (k - 1) \div batch_size = k \div batch_size

\* A request carrying block k as a unit has been issued: the batch request
\* it is part of, or a request of its own markup.
Requested(k) == blk[k].batched + blk[k].whole > 0

\* C11 as the spec states it (mutation ordering): for consecutive blocks k
\* and k+1 and every batch size, block k is finished (its result installed)
\* before any request carrying block k+1 is issued.
C11_InstallBeforeNextRequest ==
  \A k \in 1..(Len(blk) - 1) : Requested(k + 1) => k \in finished

\* C11 as the code has it: a request of block k+1's own markup is issued
\* only after block k is finished, and a batch request carrying block k+1 is
\* issued before block k is finished only when it carries block k as well.
C11_InstallBeforeLaterRequest ==
  \A k \in 1..(Len(blk) - 1) :
    /\ blk[k + 1].whole > 0 => k \in finished
    /\ blk[k + 1].batched > 0 => (k \in finished \/ SameBatch(k))

\* C11's case: two blocks of one batch, the first finished, the second
\* requested again on its own after the batch request.
C11_Witness ==
  \E k \in 1..(Len(blk) - 1) :
    /\ SameBatch(k) /\ k \in finished /\ k + 1 \notin finished
    /\ blk[k + 1].batched > 0 /\ blk[k + 1].whole > 0

\* C12 (the credential is checked first): when the API credential is absent
\* the run fails with the configuration error before any container I/O, so
\* the input container is never read.
C12_CredentialBeforeIO == ~key => ~loaded

\* C13 (blank input never reaches the oracle): no request is sent for a
\* blank fragment, and translate_html returns such a fragment as it is; the
\* per-text-node fallback never sends an empty or whitespace-only text
\* node, and every such node of the document keeps its text.
C13_BlankNeverSent ==
  /\ net > 0 => ~BlankLines(req)
  /\ (ctx # "none" /\ pc = "after_" \o ctx /\ BlankLines(req)) => (out = req /\ net = 0)
  /\ ctx = "node" => req[1][1].kids[1].text \notin {"", " "}
  /\ InDoc =>
       \A n \in 1..Len(Original) :
         (~IsTag(Original[n]) /\ Original[n].text \in {"", " "}) =>
           /\ tree[n].text = Original[n].text
           /\ \A k \in 1..Len(blk) : n \notin blk[k].sent

\* C13's case: translate_html was called with a whitespace-only fragment and
\* has returned it after one attempt that sent nothing.
C13_Witness ==
  /\ pc = "after_direct" /\ req = << <<T(" ")>> >>
  /\ out = req /\ att = 1 /\ net = 0

Terminal == {"Accepted", "NodeFallback"}

\* How many entries of a ladder are terminal states.
Terminals(ladder) == Cardinality({j \in 1..Len(ladder) : ladder[j] \in Terminal})

\* The blocks (from 1) of the slice of batch_size blocks that block k is in.
SliceOf(k) ==
  LET first == ((k - 1) \div batch_size) * batch_size + 1
  IN first..Min(first + batch_size - 1, Len(blk))

\* The batches issued so far are whole slices of batch_size consecutive
\* blocks, taken in order from the first block on, each block in one batch.
BatchesPartition ==
  \A k \in 1..Len(blk) :
    LET n == blk[k].batched + (IF batch_size > 1 THEN 0 ELSE blk[k].whole)
    IN /\ n <= 1
       /\ n = 1 => \A j \in 1..Len(blk) :
                     (j < k \/ j \in SliceOf(k)) =>
                       blk[j].batched + (IF batch_size > 1 THEN 0 ELSE blk[j].whole) = 1
       /\ blk[k].size \in {0, Cardinality(SliceOf(k))}

\* translate_doc has returned with every block in one terminal state, reached once.
AllTerminalOnce ==
  \A k \in 1..Len(blk) :
    /\ k \in finished
    /\ Last(blk[k].ladder) \in Terminal
    /\ Terminals(blk[k].ladder) = 1

\* C15 (batching and termination): when no oracle call raises, translate_doc
\* does not end by an exception, its batches are contiguous non-overlapping
\* runs of batch_size consecutive blocks covering the block list in order,
\* and when it returns every block has ended in exactly one terminal state
\* (Accepted or NodeFallback), exactly once.
C15_BatchingTerminates ==
  (failures = 0 /\ InDoc) =>
    /\ pc # "raised"
    /\ BatchesPartition
    /\ pc = "returned" => AllTerminalOnce

\* What is left of C15 when the runs that end by an exception are set aside.
C15_Remainder ==
  (failures = 0 /\ InDoc) =>
    /\ BatchesPartition
    /\ pc = "returned" => AllTerminalOnce

\* The element structure of a markup: tag names, attributes and the order of
\* the element children, the text left out.
RECURSIVE Skeleton(_)
Skeleton(m) ==
  IF m = <<>> THEN <<>>
  ELSE IF IsTag(Head(m))
    THEN <<[name |-> Head(m).name, attrs |-> Head(m).attrs,
            kids |-> Skeleton(Head(m).kids)]>> \o Skeleton(Tail(m))
  ELSE Skeleton(Tail(m))

\* C16 (the fallback leaves the structure alone): when translate_doc
\* returns, the subtree of every block that ended in NodeFallback has the
\* element structure it had in the original document (tag names, attributes,
\* order of element children), nested blocks included; only text may differ.
C16_StructureUntouched ==
  pc = "returned" =>
    \A k \in 1..Len(blk) :
      Has(blk[k].ladder, "NodeFallback") =>
        Skeleton(ExtractOuter(tree, blocks[k])) = Skeleton(ExtractOuter(Original, blocks[k]))

\* The element is still in the document tree (reachable from <body>).
Attached(t, el) == el \in SeqToSet(Descendants(t, Body))

\* C17 (extracted blocks stay attached): every block that a request is made
\* for (in a batch, on its own, or for one of its text nodes) is attached to
\* the document tree at that moment, and every block is attached when
\* translate_doc returns, so that its mutation is in the returned markup.
C17_BlocksAttached ==
  InDoc =>
    /\ (pc = "call" /\ ctx = "batch") =>
         \A j \in 1..Len(Batch) : Attached(tree, Batch[j])
    /\ (pc = "call" /\ ctx \in {"single", "retry", "node"}) =>
         Attached(tree, blocks[Cur])
    /\ pc = "returned" => \A k \in 1..Len(blocks) : Attached(tree, blocks[k])

\* The j-th piece of the batch response at hand passes the same-shape check
\* against the j-th block of the batch.
Fits(j) ==
  /\ j <= Len(parts) /\ parts[j] # <<>>
  /\ LET parsed == Lxml(parts[j])
     IN /\ parsed.body /\ HasTop(parsed.contents)
        /\ SameTagAndAttrs(tree[Batch[j]], Top(parsed.contents))

\* The batch response at hand was split into as many pieces as the batch has
\* blocks.
SplitExact == batch_size > 1 /\ blk[i + 1].size > 0 /\ Len(parts) = Len(Batch)

\* A piece of the batch response at hand fails the same-shape check.
SomeMisfit == \E j \in 1..Len(Batch) : ~Fits(j)

\* The j-th block of the batch was accepted from the batch response, with no
\* request of its own.
AcceptedFromBatch(j) ==
  /\ blk[i + j].via = "batch" /\ Last(blk[i + j].ladder) = "Accepted"
  /\ blk[i + j].whole = 0 /\ blk[i + j].sent = {}

\* C18 (per-block blast radius): when the batch response splits into exactly
\* as many pieces as the batch has blocks and one of the pieces fails the
\* same-shape check, then once the batch is dealt with
\* (its loop is over, or the run has ended at another block of it) every
\* block whose own piece passes the same-shape check is Accepted from the
\* batch response with no further oracle call for it, whatever happened to
\* the other blocks.
C18_BlastRadius ==
  (InDoc /\ i < Len(blocks) /\ SplitExact /\ SomeMisfit
     /\ (pc = "raised" \/ (pc = "each" /\ idx >= Len(Batch)))) =>
    \A j \in 1..Len(Batch) :
      (Fits(j) /\ (pc = "raised" => j # idx + 1)) => AcceptedFromBatch(j)

\* What is left of C18 when the runs that end by an exception are set aside.
C18_Remainder ==
  (InDoc /\ i < Len(blocks) /\ SplitExact /\ SomeMisfit
     /\ pc = "each" /\ idx >= Len(Batch)) =>
    \A j \in 1..Len(Batch) : Fits(j) => AcceptedFromBatch(j)

C20_OriginalTextFallback ==
  /\ (pc = "pro_ret" /\ errs # <<>>) => out = req
  /\ (pc = "pro_batch" /\ errs # <<>>) =>
       /\ i >= batch_size
       /\ \A j \in 1..Len(req) : tree[queue[i - batch_size + j]].text = req[j]
  /\ errs # <<>> => pc \in {"pro_ret", "pro_batch"}

\* C20's case: a batch of two texts whose request failed has been dealt
\* with, both text nodes hold their texts, and another batch is to follow.
C20_Witness ==
  /\ pc = "pro_batch" /\ errs # <<>> /\ Len(req) = 2 /\ i < Len(queue)
  /\ \A j \in 1..Len(req) : tree[queue[i - batch_size + j]].text = req[j]
====
